---- MODULE Spec2Model ----
(***************************************************************************)
(* The consolidation controller of pkg/controllers/consolidation:          *)
(* ProcessCluster, its candidate selection, eviction gate, action planner  *)
(* and action executor, as one state machine over a small fleet.           *)
(***************************************************************************)
EXTENDS Integers, Sequences, FiniteSets, TLC

(***************************************************************************)
(* Bounds of the model.                                                    *)
(***************************************************************************)
\* pods bound to one node
MaxPods == 2

(***************************************************************************)
(* Program constants.                                                      *)
(***************************************************************************)
\* retry.Attempts(30) of the readiness wait
Attempts == 30

(***************************************************************************)
(* Names.  The fleet at start is ExistingNames; the node launched by the   *)
(* t-th ProcessCluster call is named <<"r", t>>.                           *)
(***************************************************************************)
ExistingNames == {<<"n", 1>>, <<"n", 2>>}

\* ProcessCluster calls in a behaviour of the loop
MaxTicks == 2

ReplacementNames == {<<"r", t>> : t \in 1..MaxTicks}

AllNames == ExistingNames \cup ReplacementNames

NoName == <<"none", 0>>

(***************************************************************************)
(* The cloud provider's catalog: instance type t costs PriceTable[t].      *)
(* Two distinct types share a price.                                       *)
(***************************************************************************)
PriceTable == <<1, 2, 2, 3>>

InstanceTypes == DOMAIN PriceTable

Price(it) == PriceTable[it]

\* label value of a node whose instance type is not in the catalog
UnknownType == 0

(***************************************************************************)
(* Provisioners known to the API server.  A node's provisioner-name label  *)
(* is one of these names, "missing" (names no provisioner) or "none" (no   *)
(* label).  ttl = 0 stands for TTLSecondsUntilExpired == nil.              *)
(***************************************************************************)
TTLSeconds == 4

Provisioners ==
    [ default |-> [consolidation |-> "true",  ttl |-> 0],
      ttl     |-> [consolidation |-> "true",  ttl |-> TTLSeconds],
      off     |-> [consolidation |-> "false", ttl |-> 0],
      unset   |-> [consolidation |-> "nil",   ttl |-> 0] ]

ProvLabels == DOMAIN Provisioners \cup {"missing", "none"}

\* clock.Now() during the behaviour; nodes are created at 1 or 2
Now == 3

(***************************************************************************)
(* Pods.                                                                   *)
(***************************************************************************)
PlainPod ==
    [ owner        |-> "rs",      \* "rs" | "ds" | "node" | "none"
      terminal     |-> FALSE,     \* phase Succeeded/Failed
      terminating  |-> FALSE,     \* deletion timestamp set
      doNotEvict   |-> FALSE,     \* karpenter.sh/do-not-evict
      pdbBlocked   |-> FALSE,     \* matched by a PDB with disruptionsAllowed = 0
      deletionCost |-> 0,         \* pod-deletion-cost annotation (0: absent or not a number)
      priority     |-> 0 ]        \* spec.priority (0: nil)

(***************************************************************************)
(* Nodes.                                                                  *)
(***************************************************************************)
StandardNode ==
    [ exists           |-> TRUE,
      prov             |-> "default",
      itype            |-> 2,
      initialized      |-> "true",    \* "true" | "false" | "absent"
      doNotConsolidate |-> FALSE,
      nominated        |-> FALSE,
      deleting         |-> FALSE,     \* deletion timestamp set
      unschedulable    |-> FALSE,
      spot             |-> FALSE,
      created          |-> 1,
      pods             |-> <<PlainPod>> ]

AbsentNode ==
    [ exists           |-> FALSE,
      prov             |-> "none",
      itype            |-> UnknownType,
      initialized      |-> "absent",
      doNotConsolidate |-> FALSE,
      nominated        |-> FALSE,
      deleting         |-> FALSE,
      unschedulable    |-> FALSE,
      spot             |-> FALSE,
      created          |-> 0,
      pods             |-> <<>> ]

(***************************************************************************)
(* The fleets of Init: the standard fleet, and every fleet that is one or   *)
(* two single edits away from it (an edit sets one field of a node or of a *)
(* pod, or adds or removes a pod).                                         *)
(***************************************************************************)
StandardFleet == [n \in AllNames |-> IF n \in ExistingNames THEN StandardNode ELSE AbsentNode]

PodVariants(p) ==
    {[p EXCEPT !.owner = v] : v \in {"rs", "ds", "node", "none"}}
    \cup {[p EXCEPT !.terminal = v] : v \in BOOLEAN}
    \cup {[p EXCEPT !.terminating = v] : v \in BOOLEAN}
    \cup {[p EXCEPT !.doNotEvict = v] : v \in BOOLEAN}
    \cup {[p EXCEPT !.pdbBlocked = v] : v \in BOOLEAN}
    \cup {[p EXCEPT !.deletionCost = v] : v \in {-1, 0, 1}}

PodsVariants(ps) ==
    UNION {{[ps EXCEPT ![i] = q] : q \in PodVariants(ps[i])} : i \in DOMAIN ps}
    \cup (IF Len(ps) < MaxPods THEN {Append(ps, PlainPod)} ELSE {})
    \cup (IF Len(ps) > 0 THEN {SubSeq(ps, 1, Len(ps) - 1)} ELSE {})

NodeVariants(nd) ==
    {[nd EXCEPT !.prov = v] : v \in ProvLabels}
    \cup {[nd EXCEPT !.itype = v] : v \in InstanceTypes \cup {UnknownType}}
    \cup {[nd EXCEPT !.initialized = v] : v \in {"true", "false", "absent"}}
    \cup {[nd EXCEPT !.doNotConsolidate = v] : v \in BOOLEAN}
    \cup {[nd EXCEPT !.nominated = v] : v \in BOOLEAN}
    \cup {[nd EXCEPT !.deleting = v] : v \in BOOLEAN}
    \cup {[nd EXCEPT !.unschedulable = v] : v \in BOOLEAN}
    \cup {[nd EXCEPT !.spot = v] : v \in BOOLEAN}
    \cup {[nd EXCEPT !.created = v] : v \in {1, 2}}
    \cup {[nd EXCEPT !.pods = ps] : ps \in PodsVariants(nd.pods)}

FleetVariants(f) ==
    UNION {{[f EXCEPT ![n] = nd] : nd \in NodeVariants(f[n])} : n \in ExistingNames}

\* two nodes of the provisioner with an expiration TTL: the older one, with
\* half of its lifetime left, has the pod that costs more to evict
ExpiringFleet ==
    [StandardFleet EXCEPT
        ![<<"n", 1>>] = [StandardNode EXCEPT !.prov = "ttl",
                                             !.pods = <<[PlainPod EXCEPT !.deletionCost = 1]>>],
        ![<<"n", 2>>] = [StandardNode EXCEPT !.prov = "ttl", !.created = 2]]

InitialFleets ==
    UNION {FleetVariants(f) : f \in FleetVariants(StandardFleet)} \cup {ExpiringFleet}

(***************************************************************************)
(* State.                                                                  *)
(***************************************************************************)
VARIABLES
    nodes,      \* the cluster: node name -> node record (cluster state and API server)
    pc,         \* where the controller is inside ProcessCluster ("idle" between calls)
    ticks,      \* ProcessCluster invocations started
    cands,      \* candidates of the current tick ([]candidateNode)
    idx,        \* index of the candidate under examination / of the old node being deleted
    action,     \* the consolidationAction being performed
    attempts,   \* readiness polls made by retry.Do
    launched,   \* name returned by LaunchNodes, NoName before
    result,     \* ProcessResult of the last ProcessCluster
    log,        \* calls made on the cluster in the current tick, in order, a run
                \* of equal consecutive readiness polls recorded once
    examined,   \* gate and planner verdict per candidate examined in the current
                \* tick, in order
    seen,       \* the fleet as ForEachNode saw it in the current tick
    plan,       \* the planner applied to one candidate and one simulation outcome
                \* (used by PlanSpec only)
    loop,       \* position of the controller's goroutine: "init" (waiting for the
                \* start signal), "select" (waiting in run's select), "tick" (in
                \* the body of the timer case), "done"; "off" when no loop runs
    started,    \* startAsync has been closed
    cancelled,  \* ctx.Done() has been closed
    lastConsolidationState,  \* Controller.lastConsolidationState
    clusterState,            \* cluster.ClusterConsolidationState()
    now,                     \* clock.Now(), in minutes
    lastNodeDeletionTime,    \* cluster.LastNodeDeletionTime(), in minutes
    health,     \* pending provisionable pods and workloads short of ready replicas
    history,    \* ProcessResult of the ProcessCluster calls that returned, in order
    stateRead   \* cluster.ClusterConsolidationState() when the call in progress began

loopVars == <<loop, started, cancelled, lastConsolidationState, clusterState, now,
              lastNodeDeletionTime, health, history, stateRead>>

vars == <<nodes, pc, ticks, cands, idx, action, attempts, launched, result, log, examined, seen, plan,
          loop, started, cancelled, lastConsolidationState, clusterState, now,
          lastNodeDeletionTime, health, history, stateRead>>

Healthy == [pending |-> FALSE, unready |-> {}]

\* no loop: the clock stands at the time of the last node deletion
LoopOff ==
    /\ loop = "off"
    /\ started = FALSE
    /\ cancelled = FALSE
    /\ lastConsolidationState = 0
    /\ clusterState = 0
    /\ now = 0
    /\ lastNodeDeletionTime = 0
    /\ health = Healthy
    /\ history = <<>>
    /\ stateRead = 0

NoAction ==
    [ result         |-> "Unknown",
      oldNodes       |-> <<>>,
      disruptionCost |-> <<0, 1>>,
      savings        |-> 0,
      options        |-> <<>>,
      spot           |-> FALSE ]

NoPlan == [phase |-> "off", node |-> <<>>, sim |-> <<>>, verdict |-> NoAction]

Init ==
    /\ plan = NoPlan
    /\ LoopOff
    /\ nodes \in InitialFleets
    /\ pc = "idle"
    /\ ticks = 0
    /\ cands = <<>>
    /\ idx = 0
    /\ action = NoAction
    /\ attempts = 0
    /\ launched = NoName
    /\ result = "None"
    /\ log = <<>>
    /\ examined = <<>>
    /\ seen = nodes

(***************************************************************************)
(* Helpers on sequences.                                                   *)
(***************************************************************************)
Range(s) == {s[i] : i \in DOMAIN s}

\* the sequences that list every element of the set S once
Orders(S) == {s \in [1..Cardinality(S) -> S] : Range(s) = S}

\* the rearrangements of the sequence s
Rearrangements(s) == {[i \in DOMAIN s |-> s[p[i]]] : p \in Orders(DOMAIN s)}

(***************************************************************************)
(* pkg/utils/pod predicates and the cost model.                            *)
(***************************************************************************)
IsOwnedByNode(p) == p.owner = "node"

IsOwnedByDaemonSet(p) == p.owner = "ds"

IsTerminal(p) == p.terminal

IsTerminating(p) == p.terminating

HasDoNotEvict(p) == p.doNotEvict

IsNotOwned(p) == p.owner = "none"

\* 1.0 in the model's cost unit
PodCostBase == 8

\* an eviction cost that does not look at the priority
GetPodEvictionCostNoPriority(p) == PodCostBase + p.deletionCost

\* baseline 1.0, shifted by the declared deletion cost and by the priority
GetPodEvictionCost(p) == PodCostBase + p.deletionCost + p.priority

RECURSIVE disruptionCost(_)
disruptionCost(pods) ==
    IF pods = <<>> THEN 0
    ELSE GetPodEvictionCost(Head(pods)) + disruptionCost(Tail(pods))

(***************************************************************************)
(* getNodePods: the pods of a node that would need rescheduling.           *)
(***************************************************************************)
NeedsRescheduling(p) ==
    ~(IsOwnedByNode(p) \/ IsOwnedByDaemonSet(p) \/ IsTerminal(p))

getNodePods(nd) == SelectSeq(nd.pods, NeedsRescheduling)

(***************************************************************************)
(* candidateNodes: the callback of ForEachNode applied to one node, and    *)
(* the iteration in the order the cluster state yields the nodes.          *)
(* podErr holds the nodes whose pod listing fails.                         *)
(***************************************************************************)
CandidateOf(name, nd) ==
    [ name           |-> name,
      deleting       |-> nd.deleting,
      spot           |-> nd.spot,
      itype          |-> nd.itype,
      prov           |-> nd.prov,
      created        |-> nd.created,
      pods           |-> getNodePods(nd),
      disruptionCost |-> disruptionCost(getNodePods(nd)) ]

\* a callback that passes over an uninitialized node instead of flagging it
VisitNodeSkipUninitialized(acc, name, nd, podErr) ==
    IF nd.prov \notin DOMAIN Provisioners THEN acc
    ELSE IF nd.itype \notin InstanceTypes
            \/ Provisioners[nd.prov].consolidation # "true" THEN acc
    ELSE IF nd.initialized # "true" THEN acc
    ELSE IF nd.doNotConsolidate THEN acc
    ELSE IF nd.nominated THEN acc
    ELSE IF name \in podErr THEN acc
    ELSE [acc EXCEPT !.nodes = Append(@, CandidateOf(name, nd))]

\* a callback that takes a nominated node for a candidate
VisitNodeTakeNominated(acc, name, nd, podErr) ==
    IF nd.prov \notin DOMAIN Provisioners THEN acc
    ELSE IF nd.itype \notin InstanceTypes
            \/ Provisioners[nd.prov].consolidation # "true" THEN acc
    ELSE IF acc.uninitializedNodeExists THEN acc
    ELSE IF nd.initialized # "true" THEN [acc EXCEPT !.uninitializedNodeExists = TRUE]
    ELSE IF nd.doNotConsolidate THEN acc
    ELSE IF name \in podErr THEN acc
    ELSE [acc EXCEPT !.nodes = Append(@, CandidateOf(name, nd))]

\* a callback that takes a node with the initialized label, whatever its
\* value, for initialized
VisitNodeLabelPresent(acc, name, nd, podErr) ==
    IF nd.prov \notin DOMAIN Provisioners THEN acc
    ELSE IF nd.itype \notin InstanceTypes
            \/ Provisioners[nd.prov].consolidation # "true" THEN acc
    ELSE IF acc.uninitializedNodeExists THEN acc
    ELSE IF nd.initialized = "absent" THEN [acc EXCEPT !.uninitializedNodeExists = TRUE]
    ELSE IF nd.doNotConsolidate THEN acc
    ELSE IF nd.nominated THEN acc
    ELSE IF name \in podErr THEN acc
    ELSE [acc EXCEPT !.nodes = Append(@, CandidateOf(name, nd))]

VisitNode(acc, name, nd, podErr) ==
    IF nd.prov \notin DOMAIN Provisioners THEN acc
    ELSE IF nd.itype \notin InstanceTypes
            \/ Provisioners[nd.prov].consolidation # "true" THEN acc
    ELSE IF acc.uninitializedNodeExists THEN acc
    ELSE IF nd.initialized # "true" THEN [acc EXCEPT !.uninitializedNodeExists = TRUE]
    ELSE IF nd.doNotConsolidate THEN acc
    ELSE IF nd.nominated THEN acc
    ELSE IF name \in podErr THEN acc
    ELSE [acc EXCEPT !.nodes = Append(@, CandidateOf(name, nd))]

RECURSIVE ForEachNode(_, _, _, _)
ForEachNode(acc, order, fleet, podErr) ==
    IF order = <<>> THEN acc
    ELSE ForEachNode(VisitNode(acc, Head(order), fleet[Head(order)], podErr),
                     Tail(order), fleet, podErr)

candidateNodes(order, fleet, podErr) ==
    LET acc == ForEachNode([nodes |-> <<>>, uninitializedNodeExists |-> FALSE],
                           order, fleet, podErr)
    IN  IF acc.uninitializedNodeExists THEN <<>> ELSE acc.nodes

(***************************************************************************)
(* byNodeDisruptionCost and sort.Slice: any rearrangement in which no      *)
(* element is less than one before it.                                     *)
(***************************************************************************)
\* an order that breaks ties in favour of the newer node
byNodeDisruptionCostNewerFirst(a, b) ==
    IF a.disruptionCost = b.disruptionCost
    THEN a.created > b.created
    ELSE a.disruptionCost < b.disruptionCost

byNodeDisruptionCost(a, b) ==
    IF a.disruptionCost = b.disruptionCost
    THEN a.created < b.created
    ELSE a.disruptionCost < b.disruptionCost

SortSlice(s) ==
    {t \in Rearrangements(s) :
        \A i, j \in DOMAIN t : i < j => ~byNodeDisruptionCost(t[j], t[i])}

(***************************************************************************)
(* Eviction gate.                                                          *)
(***************************************************************************)
CanEvictPods(pods) == \A i \in DOMAIN pods : ~pods[i].pdbBlocked

\* a gate that does not look at the do-not-evict annotation
PodPreventsNoAnnotation(p) ==
    IF IsTerminating(p) \/ IsTerminal(p) \/ IsOwnedByNode(p) THEN "ok"
    ELSE IF IsNotOwned(p) THEN "found pod with no controller"
    ELSE "ok"

PodPrevents(p) ==
    IF IsTerminating(p) \/ IsTerminal(p) \/ IsOwnedByNode(p) THEN "ok"
    ELSE IF HasDoNotEvict(p) THEN "found do-not-evict pod"
    ELSE IF IsNotOwned(p) THEN "found pod with no controller"
    ELSE "ok"

RECURSIVE podsPreventEviction(_)
podsPreventEviction(pods) ==
    IF pods = <<>> THEN "ok"
    ELSE IF PodPrevents(Head(pods)) # "ok" THEN PodPrevents(Head(pods))
    ELSE podsPreventEviction(Tail(pods))

\* a gate that does not ask the PDB tracker
canBeTerminatedNoPDB(node) ==
    IF node.deleting THEN "already being deleted"
    ELSE podsPreventEviction(node.pods)

canBeTerminated(node) ==
    IF node.deleting THEN "already being deleted"
    ELSE IF ~CanEvictPods(node.pods) THEN "not eligible for termination due to PDBs"
    ELSE podsPreventEviction(node.pods)

(***************************************************************************)
(* The scheduling simulation (provisioner.NewScheduler + Scheduler.Solve   *)
(* in simulation mode, the candidate excluded).  Its outcome is an input:  *)
(* an error, or the number of new nodes needed, the number of pods placed  *)
(* on existing nodes, and for one new node its instance type options (in   *)
(* ascending price order) and whether its requirements admit spot.         *)
(***************************************************************************)
SortedOptions ==
    {s \in UNION {[1..k -> InstanceTypes] : k \in 1..Cardinality(InstanceTypes)} :
        /\ \A i, j \in DOMAIN s : i < j => s[i] # s[j] /\ Price(s[i]) <= Price(s[j])}

Solve(node) ==
    {[err |-> e, newNodes |-> 0, placed |-> 0, options |-> <<>>, spot |-> FALSE] :
        e \in {"creating scheduler", "simulating scheduling"}}
    \cup {[err |-> "none", newNodes |-> 0, placed |-> k, options |-> <<>>, spot |-> FALSE] :
        k \in 0..Len(node.pods)}
    \cup {[err |-> "none", newNodes |-> 1, placed |-> 0, options |-> o, spot |-> sp] :
        o \in SortedOptions, sp \in BOOLEAN}
    \cup {[err |-> "none", newNodes |-> 2, placed |-> 0, options |-> o, spot |-> sp] :
        o \in SortedOptions, sp \in BOOLEAN}

(***************************************************************************)
(* Action planner.                                                         *)
(***************************************************************************)
filterByPrice(options, price, inclusive) ==
    LET Keep(it) == Price(it) < price \/ (inclusive /\ Price(it) = price)
    IN  SelectSeq(options, Keep)

clamp(lo, frac, hi) ==
    IF frac[1] * lo[2] < lo[1] * frac[2] THEN lo
    ELSE IF frac[1] * hi[2] > hi[1] * frac[2] THEN hi
    ELSE frac

\* a fraction <<numerator, denominator>> in [0, 1]
calculateLifetimeRemaining(node) ==
    IF Provisioners[node.prov].ttl # 0
    THEN LET ageInSeconds == Now - node.created
             totalLifetimeSeconds == Provisioners[node.prov].ttl
             lifetimeRemainingSeconds == totalLifetimeSeconds - ageInSeconds
         IN  clamp(<<0, 1>>, <<lifetimeRemainingSeconds, totalLifetimeSeconds>>, <<1, 1>>)
    ELSE <<1, 1>>

\* a Delete action that takes every candidate of the tick as an old node
deleteActionAll(node) ==
    [NoAction EXCEPT !.result = "Delete",
                     !.oldNodes = [i \in DOMAIN cands |-> cands[i].name],
                     !.disruptionCost = <<disruptionCost(node.pods), 1>>,
                     !.savings = Price(node.itype)]

\* the Delete action for a candidate whose pods all fit on the other nodes
deleteAction(node) ==
    [NoAction EXCEPT !.result = "Delete",
                     !.oldNodes = <<node.name>>,
                     !.disruptionCost = <<disruptionCost(node.pods), 1>>,
                     !.savings = Price(node.itype)]

\* a filter that keeps the options of the same price as the old node
replacementOptionsInclusive(sim, nodePrice) == filterByPrice(sim.options, nodePrice, TRUE)

\* the instance types the replacement may use
replacementOptions(sim, nodePrice) == filterByPrice(sim.options, nodePrice, FALSE)

\* a planner without the spot check
spotToSpotNever(node, sim) == FALSE

\* is this a spot node that would be replaced by a spot node?
spotToSpot(node, sim) == node.spot /\ sim.spot

\* savings of a replacement: the old price less the price of the first option
replaceSavings(nodePrice, options) == nodePrice - Price(options[1])

\* a count that takes the pods as scheduled without counting them
allPodsScheduledUncounted(node, sim) == TRUE

\* were all the pods scheduled on the inflight nodes: schedulableCount, the
\* pods the simulation put on existing nodes, against len(node.pods)
allPodsScheduled(node, sim) == Len(node.pods) = sim.placed

\* a planner that takes the first of the new nodes whatever their number
notSingleNodeIgnored(sim) == FALSE

\* we're not going to turn a single node into multiple nodes
notSingleNode(sim) == sim.newNodes # 1

\* a planner that reads the result of a simulation that failed
simulationFailedIgnored(sim) == FALSE

\* NewScheduler or Solve returned an error
simulationFailed(sim) == sim.err # "none"

nodeConsolidationOptionReplaceOrDelete(node, sim) ==
    IF simulationFailed(sim) THEN NoAction
    ELSE IF sim.newNodes = 0 /\ allPodsScheduled(node, sim) THEN deleteAction(node)
    ELSE IF notSingleNode(sim) THEN [NoAction EXCEPT !.result = "NotPossible"]
    ELSE LET nodePrice == Price(node.itype)
             options == replacementOptions(sim, nodePrice)
         IN  IF options = <<>> THEN [NoAction EXCEPT !.result = "NotPossible"]
             ELSE IF spotToSpot(node, sim) THEN [NoAction EXCEPT !.result = "NotPossible"]
             ELSE [NoAction EXCEPT !.result = "Replace",
                                   !.oldNodes = <<node.name>>,
                                   !.disruptionCost = <<disruptionCost(node.pods), 1>>,
                                   !.savings = replaceSavings(nodePrice, options),
                                   !.options = options,
                                   !.spot = sim.spot]

nodeConsolidationActions(node, sim) ==
    LET lifetimeRemaining == calculateLifetimeRemaining(node)
        cost == nodeConsolidationOptionReplaceOrDelete(node, sim)
    IN  [cost EXCEPT !.disruptionCost =
            <<cost.disruptionCost[1] * lifetimeRemaining[1],
              cost.disruptionCost[2] * lifetimeRemaining[2]>>]

(***************************************************************************)
(* ProcessCluster, step by step.  Each step ends at a call that leaves the *)
(* controller (API server, provisioner, scheduler).                        *)
(***************************************************************************)
Event(op, node, obs) == [op |-> op, node |-> node, obs |-> obs]

Record(e) ==
    log' = IF e.op = "poll" /\ log # <<>> /\ log[Len(log)] = e THEN log ELSE Append(log, e)

\* a failed call of launchReplacementNode and the error performConsolidation
\* logs for it
RecordFailure(e, node, why) == log' = log \o <<e, Event("error", node, why)>>

Return(r) == pc' = "idle" /\ result' = r

\* a performConsolidation that launches the replacement without cordoning
performConsolidationNoCordon(act) ==
    /\ action' = act
    /\ idx' = 1
    /\ IF act.result \notin {"Delete", "Replace", "DeleteEmpty"}
       THEN Return("Consolidated")
       ELSE /\ pc' = IF act.result = "Replace" THEN "launch" ELSE "delete"
            /\ UNCHANGED result

\* a performConsolidation that calls launchReplacementNode for a Delete too
performConsolidationLaunchOnDelete(act) ==
    /\ action' = act
    /\ idx' = 1
    /\ IF act.result \notin {"Delete", "Replace", "DeleteEmpty"}
       THEN Return("Consolidated")
       ELSE /\ pc' = IF act.result \in {"Replace", "Delete"} THEN "cordon" ELSE "delete"
            /\ UNCHANGED result

\* performConsolidation up to its first call on the cluster
performConsolidation(act) ==
    /\ action' = act
    /\ idx' = 1
    /\ IF act.result \notin {"Delete", "Replace", "DeleteEmpty"}
       THEN Return("Consolidated")
       ELSE /\ pc' = IF act.result = "Replace" THEN "cordon" ELSE "delete"
            /\ UNCHANGED result

\* a ProcessCluster without the empty-node branch
IsEmptyCandidateNever(c) == FALSE

IsEmptyCandidate(c) == Len(c.pods) = 0

NameOf(c) == c.name

\* ProcessCluster from its entry to the empty-node branch
ProcessClusterEntry ==
    /\ pc = "idle"
    /\ UNCHANGED plan
    /\ ticks' = ticks + 1
    /\ examined' = <<>>
    /\ attempts' = 0
    /\ launched' = NoName
    /\ seen' = nodes
    /\ UNCHANGED nodes
    /\ \/ \* buildProvisionerMap fails
          /\ cands' = <<>>
          /\ action' = NoAction
          /\ idx' = 0
          /\ log' = <<Event("listProvisioners", NoName, "err")>>
          /\ Return("Failed")
       \/ \E order \in Orders({n \in AllNames : nodes[n].exists}),
             podErr \in {{}} \cup {{n} : n \in {m \in AllNames : nodes[m].exists}} :
            LET candidates == candidateNodes(order, nodes, podErr)
                emptyNodes == SelectSeq(candidates, IsEmptyCandidate)
            IN  /\ cands' = candidates
                /\ log' = <<>>
                /\ IF Len(candidates) = 0
                   THEN /\ Return("NothingToDo")
                        /\ action' = NoAction
                        /\ idx' = 0
                   ELSE IF Len(emptyNodes) > 0
                   THEN performConsolidation(
                            [NoAction EXCEPT !.result = "DeleteEmpty",
                                             !.oldNodes = [i \in DOMAIN emptyNodes |-> NameOf(emptyNodes[i])]])
                   ELSE /\ pc' = "pdb"
                        /\ action' = NoAction
                        /\ idx' = 0
                        /\ UNCHANGED result

\* one call of ProcessCluster in a behaviour, on any fleet
ProcessClusterBegin == ticks = 0 /\ ProcessClusterEntry /\ UNCHANGED loopVars

\* NewPDBLimits and the sort of the candidates
ProcessClusterSort ==
    /\ pc = "pdb"
    /\ UNCHANGED <<plan, loopVars>>
    /\ UNCHANGED <<nodes, ticks, action, attempts, launched, examined, seen>>
    /\ \/ /\ Return("Failed")
          /\ Record(Event("listPDBs", NoName, "err"))
          /\ UNCHANGED <<cands, idx>>
       \/ \E sorted \in SortSlice(cands) :
            /\ cands' = sorted
            /\ idx' = 1
            /\ pc' = "examine"
            /\ UNCHANGED <<result, log>>

\* a simulation that is given the candidates of the tick only
SimulationInputCandidatesOnly(fleet, node) ==
    [stateNodes |-> {cands[k].name : k \in DOMAIN cands}, exclude |-> {node.name}]

\* what the simulation is given: every node of the cluster state, and the
\* candidate as the one node to leave out
SimulationInput(fleet, node) ==
    [stateNodes |-> {n \in AllNames : fleet[n].exists}, exclude |-> {node.name}]

NoSimulation == [stateNodes |-> {}, exclude |-> {}]

\* one iteration of the loop over the sorted candidates
ProcessClusterExamine ==
    /\ pc = "examine"
    /\ UNCHANGED <<plan, loopVars>>
    /\ UNCHANGED <<nodes, ticks, cands, attempts, launched, seen>>
    /\ LET node == cands[idx]
           gate == canBeTerminated(node)
           Continue == /\ action' = NoAction
                       /\ IF idx = Len(cands)
                          THEN Return("NothingToDo") /\ UNCHANGED idx
                          ELSE idx' = idx + 1 /\ UNCHANGED <<pc, result>>
       IN  IF gate # "ok"
           THEN /\ examined' = Append(examined,
                        [name |-> node.name, gate |-> gate, verdict |-> NoAction,
                         input |-> NoSimulation])
                /\ UNCHANGED log
                /\ Continue
           ELSE \E sim \in Solve(node) :
                  LET act == nodeConsolidationActions(node, sim)
                  IN  /\ examined' = Append(examined,
                              [name |-> node.name, gate |-> gate, verdict |-> act,
                               input |-> SimulationInput(nodes, node)])
                      /\ Record(Event("simulate", node.name, sim.err))
                      /\ IF act.result \in {"Delete", "Replace"}
                         THEN performConsolidation(act)
                         ELSE Continue

(***************************************************************************)
(* Action executor.                                                        *)
(***************************************************************************)
OldNode == action.oldNodes[1]

\* setNodeUnschedulable(name, isUnschedulable) under the outcome `out` of its
\* API calls: "getErr", "patchErr" or "ok".  Yields <<error?, node record>>.
setNodeUnschedulable(nd, isUnschedulable, out) ==
    IF out = "getErr" \/ ~nd.exists THEN <<TRUE, nd>>
    ELSE IF ~isUnschedulable /\ nd.deleting THEN <<FALSE, nd>>
    ELSE IF nd.unschedulable = isUnschedulable THEN <<FALSE, nd>>
    ELSE IF out = "patchErr" THEN <<TRUE, nd>>
    ELSE <<FALSE, [nd EXCEPT !.unschedulable = isUnschedulable]>>

ApiOutcomes == {"ok", "getErr", "patchErr"}

\* launchReplacementNode: cordon the old node
LaunchReplacementCordon ==
    /\ pc = "cordon"
    /\ UNCHANGED <<plan, loopVars>>
    /\ UNCHANGED <<ticks, cands, idx, action, attempts, launched, examined, seen>>
    /\ \E out \in ApiOutcomes :
         LET r == setNodeUnschedulable(nodes[OldNode], TRUE, out)
         IN  /\ nodes' = [nodes EXCEPT ![OldNode] = r[2]]
             /\ IF r[1]
                THEN /\ RecordFailure(Event("cordon", OldNode, "err"), OldNode, "cordoning node")
                     /\ Return("Consolidated")
                ELSE /\ Record(Event("cordon", OldNode, "ok"))
                     /\ pc' = "launch" /\ UNCHANGED result

\* the node LaunchNodes creates for the replacement of the action
LaunchedNode(it) ==
    [ StandardNode EXCEPT !.prov = nodes[OldNode].prov,
                          !.itype = it,
                          !.initialized = "absent",
                          !.spot = action.spot,
                          !.created = Now,
                          !.pods = <<>> ]

\* a performConsolidation that goes on to the delete when the launch failed
AfterLaunchDeleteAnyway(failed) == IF failed THEN "delete" ELSE "poll"

\* where the Replace goes after LaunchNodes: performConsolidation returns when
\* launchReplacementNode returns an error
AfterLaunch(failed) == IF failed THEN "idle" ELSE "poll"

\* launchReplacementNode: provisioner.LaunchNodes
LaunchReplacementLaunch ==
    /\ pc = "launch"
    /\ UNCHANGED <<plan, loopVars>>
    /\ UNCHANGED <<ticks, cands, idx, action, attempts, examined, seen>>
    /\ \/ \* LaunchNodes fails, or returns other than one name
          \E why \in {"err", "count"} :
            /\ RecordFailure(Event("launch", NoName, why), OldNode, "launching")
            /\ pc' = AfterLaunch(TRUE)
            /\ result' = IF pc' = "idle" THEN "Consolidated" ELSE result
            /\ UNCHANGED <<nodes, launched>>
       \/ \E it \in Range(action.options) :
            LET name == <<"r", ticks>>
            IN  /\ nodes' = [nodes EXCEPT ![name] = LaunchedNode(it)]
                /\ launched' = name
                /\ Record(Event("launch", name, "ok"))
                /\ pc' = AfterLaunch(FALSE)
                /\ UNCHANGED result

\* a readiness wait that takes any node it can get for ready
PollObservationEager(nd) ==
    IF ~nd.exists THEN "getErr" ELSE "ready"

\* what one attempt of the readiness wait sees: the Get fails when the node
\* is gone, and the node counts as ready when it has the initialized label
PollObservation(nd) ==
    IF ~nd.exists THEN "getErr"
    ELSE IF nd.initialized = "absent" THEN "notReady"
    ELSE "ready"

\* what kubeClient.Get may give the wait: with the context cancelled the call
\* may fail, or be served as before
PollOutcomes(nd, ctxDone) ==
    IF ctxDone THEN {"getErr", PollObservation(nd)} ELSE {PollObservation(nd)}

\* a wait that goes on to the delete when its attempts run out
AfterPollDeleteOnTimeout(obs, made) ==
    IF obs = "ready" \/ made = Attempts THEN "delete" ELSE "poll"

\* a wait that polls until the node is ready, however long that takes
AfterPollUnbounded(obs, made) ==
    IF obs = "ready" THEN "delete" ELSE "poll"

\* where launchReplacementNode goes after an attempt of retry.Do, `made`
\* attempts made so far
AfterPoll(obs, made) ==
    IF obs = "ready" THEN "delete"
    ELSE IF made = Attempts THEN "uncordon"
    ELSE "poll"

\* launchReplacementNode: one attempt of retry.Do
LaunchReplacementPoll ==
    /\ pc = "poll"
    /\ UNCHANGED <<plan, loopVars>>
    /\ attempts < Attempts
    /\ UNCHANGED <<nodes, ticks, cands, idx, action, launched, examined, result, seen>>
    /\ \E obs \in PollOutcomes(nodes[launched], cancelled) :
       LET next == AfterPoll(obs, attempts + 1)
       IN  /\ Record(Event("poll", launched, obs))
           /\ pc' = next
           \* the attempt counter lives inside retry.Do
           /\ attempts' = IF next = "poll" THEN attempts + 1 ELSE 0

\* launchReplacementNode: the wait failed, uncordon the old node and give up
LaunchReplacementUncordon ==
    /\ pc = "uncordon"
    /\ UNCHANGED <<plan, loopVars>>
    /\ UNCHANGED <<ticks, cands, idx, action, attempts, launched, examined, seen>>
    /\ \E out \in ApiOutcomes :
         LET r == setNodeUnschedulable(nodes[OldNode], FALSE, out)
         IN  /\ nodes' = [nodes EXCEPT ![OldNode] = r[2]]
             /\ RecordFailure(Event("uncordon", OldNode, IF r[1] THEN "err" ELSE "ok"),
                              OldNode, "timed out checking node readiness")
             /\ Return("Consolidated")

\* performConsolidation: one iteration of the loop that deletes the old nodes
\* a delete loop that ends at the first delete that fails
PerformDeleteStopOnError ==
    /\ pc = "delete"
    /\ UNCHANGED <<plan, loopVars>>
    /\ UNCHANGED <<ticks, cands, action, attempts, launched, examined, seen>>
    /\ LET name == action.oldNodes[idx]
       IN  \E ok \in {b \in BOOLEAN : b => nodes[name].exists} :
             /\ nodes' = IF ok THEN [nodes EXCEPT ![name].deleting = TRUE] ELSE nodes
             /\ Record(Event("delete", name, IF ok THEN "ok" ELSE "err"))
             /\ IF idx = Len(action.oldNodes) \/ ~ok
                THEN Return("Consolidated") /\ UNCHANGED idx
                ELSE idx' = idx + 1 /\ UNCHANGED <<pc, result>>

PerformDelete ==
    /\ pc = "delete"
    /\ UNCHANGED <<plan, loopVars>>
    /\ UNCHANGED <<ticks, cands, action, attempts, launched, examined, seen>>
    /\ LET name == action.oldNodes[idx]
       IN  \E ok \in {b \in BOOLEAN : b => nodes[name].exists} :
             /\ nodes' = IF ok THEN [nodes EXCEPT ![name].deleting = TRUE] ELSE nodes
             /\ Record(Event("delete", name, IF ok THEN "ok" ELSE "err"))
             /\ IF idx = Len(action.oldNodes)
                THEN Return("Consolidated") /\ UNCHANGED idx
                ELSE idx' = idx + 1 /\ UNCHANGED <<pc, result>>

(***************************************************************************)
(* The environment: the node controller labels a node initialized, and the *)
(* termination finalizer removes a node that is being deleted.             *)
(***************************************************************************)
NodeInitialized ==
    /\ \E n \in AllNames, v \in {"true", "false"} :
         /\ nodes[n].exists
         /\ nodes[n].initialized = "absent"
         /\ nodes' = [nodes EXCEPT ![n].initialized = v]
    /\ UNCHANGED <<pc, ticks, cands, idx, action, attempts, launched, result, log, examined, seen, plan>>
    /\ UNCHANGED loopVars

\* someone else deletes the old node while the controller waits for the
\* replacement; the wait does not read the old node, so the deletion is taken
\* at the end of the wait, before the controller's next call on the old node
OldNodeDeleted ==
    /\ action.result = "Replace"
    /\ pc \in {"uncordon", "delete"}
    /\ nodes[OldNode].exists
    /\ ~nodes[OldNode].deleting
    /\ nodes' = [nodes EXCEPT ![OldNode].deleting = TRUE]
    /\ UNCHANGED <<pc, ticks, cands, idx, action, attempts, launched, result, log, examined, seen, plan>>
    /\ UNCHANGED loopVars

NodeFinalized ==
    /\ \E n \in AllNames :
         /\ nodes[n].exists
         /\ nodes[n].deleting
         /\ nodes' = [nodes EXCEPT ![n] = AbsentNode]
    \* the cluster state records the time of the deletion
    /\ lastNodeDeletionTime' = now
    /\ UNCHANGED <<pc, ticks, cands, idx, action, attempts, launched, result, log, examined, seen, plan>>
    /\ UNCHANGED <<loop, started, cancelled, lastConsolidationState, clusterState, now, health,
                   history, stateRead>>

Next ==
    \/ ProcessClusterBegin
    \/ ProcessClusterSort
    \/ ProcessClusterExamine
    \/ LaunchReplacementCordon
    \/ LaunchReplacementLaunch
    \/ LaunchReplacementPoll
    \/ LaunchReplacementUncordon
    \/ PerformDelete
    \/ NodeInitialized
    \/ OldNodeDeleted
    \/ NodeFinalized

Spec == Init /\ [][Next]_vars

(***************************************************************************)
(* LoopSpec: the loop driver.  NewController starts a goroutine that waits *)
(* for the start signal and then runs the loop; every timer case of the    *)
(* loop passes the change-detection gate and the stabilization gate before *)
(* it calls ProcessCluster, whose steps are the actions above.  Time is in *)
(* minutes; the polling period is shorter than a minute, so a timer case   *)
(* may run at any reading of the clock.                                    *)
(***************************************************************************)
\* 5 * time.Minute
StabilizationWindow == 5

\* minutes the clock advances in one step, and the last reading of the clock
ClockStep == 3

MaxNow == 6

\* changes of the cluster state's fingerprint in a behaviour
MaxChanges == 2

\* the zero time of LastNodeDeletionTime: no node deleted yet
LongAgo == 0 - (StabilizationWindow + 1)

ListKinds == {"pods", "rs", "rc", "ss"}

HealthStates ==
    {Healthy, [pending |-> TRUE, unready |-> {}]}
    \cup {[pending |-> FALSE, unready |-> {k}] : k \in {"rs", "rc", "ss"}}

\* errs: the lists that fail
hasPendingPods(h, errs) == "pods" \in errs \/ h.pending

replicaSetsReady(h, errs) == "rs" \in errs \/ "rs" \notin h.unready

replicationControllersReady(h, errs) == "rc" \in errs \/ "rc" \notin h.unready

statefulSetsReady(h, errs) == "ss" \in errs \/ "ss" \notin h.unready

stabilizationWindow(h, errs) ==
    IF /\ ~hasPendingPods(h, errs)
       /\ replicaSetsReady(h, errs)
       /\ replicationControllersReady(h, errs)
       /\ statefulSetsReady(h, errs)
    THEN 0
    ELSE StabilizationWindow

\* LastNodeDeletionTime().Before(Now().Add(-window))
Stabilized(last, t, window) == last < t - window

\* a loop that memoizes the cluster state after every ProcessCluster
MemoizeAlways(r, memo, current) == current

\* lastConsolidationState after a ProcessCluster that returned r
Memoize(r, memo, current) ==
    IF r = "Failed" THEN memo
    ELSE IF r = "NothingToDo" THEN current
    ELSE memo

\* what the stabilization gate of a timer case may come to, over the lists
\* that may fail
GateOutcomes ==
    {Stabilized(lastNodeDeletionTime, now, stabilizationWindow(health, errs)) :
        errs \in SUBSET ListKinds}

\* the fleets the loop starts on: two nodes of the cheapest instance type, for
\* which no Replace can be planned, the first of them as it is, without pods,
\* or without pods and already being deleted
CheapFleet == [StandardFleet EXCEPT ![<<"n", 1>>].itype = 1, ![<<"n", 2>>].itype = 1]

LoopFleets ==
    { CheapFleet,
      [CheapFleet EXCEPT ![<<"n", 1>>].pods = <<>>],
      [CheapFleet EXCEPT ![<<"n", 1>>].pods = <<>>, ![<<"n", 1>>].deleting = TRUE] }

LoopInit ==
    /\ plan = NoPlan
    /\ nodes \in LoopFleets
    /\ pc = "idle"
    /\ ticks = 0
    /\ cands = <<>>
    /\ idx = 0
    /\ action = NoAction
    /\ attempts = 0
    /\ launched = NoName
    /\ result = "None"
    /\ log = <<>>
    /\ examined = <<>>
    /\ seen = nodes
    /\ loop = "init"
    /\ started = FALSE
    /\ cancelled = FALSE
    /\ lastConsolidationState = 0
    /\ clusterState \in {0, 1}
    /\ now = 0
    /\ lastNodeDeletionTime = LongAgo
    /\ health \in HealthStates
    /\ history = <<>>
    /\ stateRead = 0

procVars == <<nodes, pc, ticks, cands, idx, action, attempts, launched, result, log, examined, seen, plan>>

\* the environment closes startAsync
StartSignal ==
    /\ loop = "init"
    /\ ~started
    /\ started' = TRUE
    /\ UNCHANGED procVars
    /\ UNCHANGED <<loop, cancelled, lastConsolidationState, clusterState, now,
                   lastNodeDeletionTime, health, history, stateRead>>

\* the environment cancels the context, while the controller waits
Cancel ==
    /\ loop \in {"init", "select"} \/ (loop = "tick" /\ pc = "poll")
    /\ ~cancelled
    /\ cancelled' = TRUE
    /\ UNCHANGED procVars
    /\ UNCHANGED <<loop, started, lastConsolidationState, clusterState, now,
                   lastNodeDeletionTime, health, history, stateRead>>

\* NewController's goroutine: case <-startAsync
ControllerStart ==
    /\ loop = "init"
    /\ started
    /\ loop' = "select"
    /\ UNCHANGED procVars
    /\ UNCHANGED <<started, cancelled, lastConsolidationState, clusterState, now,
                   lastNodeDeletionTime, health, history, stateRead>>

\* NewController's goroutine: case <-ctx.Done()
ControllerAbandon ==
    /\ loop = "init"
    /\ cancelled
    /\ loop' = "done"
    /\ UNCHANGED procVars
    /\ UNCHANGED <<started, cancelled, lastConsolidationState, clusterState, now,
                   lastNodeDeletionTime, health, history, stateRead>>

\* run: case <-ctx.Done()
RunShutdown ==
    /\ loop = "select"
    /\ cancelled
    /\ loop' = "done"
    /\ UNCHANGED procVars
    /\ UNCHANGED <<started, cancelled, lastConsolidationState, clusterState, now,
                   lastNodeDeletionTime, health, history, stateRead>>

\* run: timer case, the cluster state is the memoized one
RunSkipUnchanged ==
    /\ loop = "select"
    /\ lastConsolidationState = clusterState
    /\ UNCHANGED vars

\* run: timer case, a node was deleted within the stabilization window
RunSkipWindow ==
    /\ loop = "select"
    /\ lastConsolidationState # clusterState
    /\ FALSE \in GateOutcomes
    /\ UNCHANGED vars

\* run: timer case, both gates passed and ProcessCluster is called
RunProcessCluster ==
    /\ loop = "select"
    /\ ticks < MaxTicks
    /\ lastConsolidationState # clusterState
    /\ TRUE \in GateOutcomes
    /\ ProcessClusterEntry
    /\ loop' = "tick"
    /\ stateRead' = clusterState
    /\ UNCHANGED <<started, cancelled, lastConsolidationState, clusterState, now,
                   lastNodeDeletionTime, health, history>>

\* a run that does not wait for ProcessCluster to return
ReturnedOrNot(p) == TRUE

\* run calls ProcessCluster and goes on when it has returned
Returned(p) == p = "idle"

\* a loop that ends when ProcessCluster fails
NextIterationUnlessFailed(r) == IF r = "Failed" THEN "done" ELSE "select"

\* the for loop goes round whatever ProcessCluster returned
NextIteration(r) == "select"

\* run: ProcessCluster has returned
RunAfterProcessCluster ==
    /\ loop = "tick"
    /\ Returned(pc)
    /\ lastConsolidationState' = Memoize(result, lastConsolidationState, clusterState)
    /\ history' = Append(history, result)
    /\ loop' = NextIteration(result)
    \* the locals of ProcessCluster and the record of its calls end with it
    /\ cands' = <<>>
    /\ idx' = 0
    /\ action' = NoAction
    /\ launched' = NoName
    /\ log' = <<>>
    /\ examined' = <<>>
    /\ seen' = nodes
    /\ UNCHANGED <<nodes, pc, ticks, attempts, result, plan>>
    /\ stateRead' = 0
    /\ UNCHANGED <<started, cancelled, clusterState, now, lastNodeDeletionTime, health>>

\* time passes between two timer cases
ClockAdvances ==
    /\ loop = "select"
    /\ now + ClockStep <= MaxNow
    /\ now' = now + ClockStep
    /\ UNCHANGED procVars
    /\ UNCHANGED <<loop, started, cancelled, lastConsolidationState, clusterState,
                   lastNodeDeletionTime, health, history, stateRead>>

\* the cluster state observer sees a change of the cluster, between two timer
\* cases or while ProcessCluster runs (taken before ProcessCluster returns)
ClusterChanged ==
    /\ loop = "select" \/ (loop = "tick" /\ pc = "idle")
    /\ clusterState < MaxChanges
    /\ clusterState' = clusterState + 1
    /\ UNCHANGED procVars
    /\ UNCHANGED <<loop, started, cancelled, lastConsolidationState, now,
                   lastNodeDeletionTime, health, history, stateRead>>

\* no step of launchReplacementNode: no Replace is planned for the fleets of
\* LoopInit
LoopNext ==
    \/ StartSignal
    \/ Cancel
    \/ ControllerStart
    \/ ControllerAbandon
    \/ RunShutdown
    \/ RunSkipUnchanged
    \/ RunSkipWindow
    \/ RunProcessCluster
    \/ RunAfterProcessCluster
    \/ ProcessClusterSort
    \/ ProcessClusterExamine
    \/ PerformDelete
    \/ NodeFinalized
    \/ ClockAdvances
    \/ ClusterChanged

LoopSpec == LoopInit /\ [][LoopNext]_vars

(***************************************************************************)
(* WaitSpec: the loop on the standard fleet, for one ProcessCluster call   *)
(* that may plan a Replace and wait for the replacement, with the context  *)
(* cancelled at any point of the wait.                                     *)
(***************************************************************************)
WaitInit ==
    /\ plan = NoPlan
    /\ nodes = StandardFleet
    /\ pc = "idle"
    /\ ticks = 0
    /\ cands = <<>>
    /\ idx = 0
    /\ action = NoAction
    /\ attempts = 0
    /\ launched = NoName
    /\ result = "None"
    /\ log = <<>>
    /\ examined = <<>>
    /\ seen = nodes
    /\ loop = "init"
    /\ started = FALSE
    /\ cancelled = FALSE
    /\ lastConsolidationState = 0
    /\ clusterState = 1
    /\ now = 0
    /\ lastNodeDeletionTime = LongAgo
    /\ health = Healthy
    /\ history = <<>>
    /\ stateRead = 0

RunProcessClusterOnce == ticks = 0 /\ RunProcessCluster

WaitNext ==
    \/ StartSignal
    \/ Cancel
    \/ ControllerStart
    \/ ControllerAbandon
    \/ RunShutdown
    \/ RunSkipUnchanged
    \/ RunSkipWindow
    \/ RunProcessClusterOnce
    \/ RunAfterProcessCluster
    \/ ProcessClusterSort
    \/ ProcessClusterExamine
    \/ LaunchReplacementCordon
    \/ LaunchReplacementLaunch
    \/ LaunchReplacementPoll
    \/ LaunchReplacementUncordon
    \/ PerformDelete
    \/ NodeInitialized
    \/ OldNodeDeleted
    \/ NodeFinalized

WaitSpec == WaitInit /\ [][WaitNext]_vars

(***************************************************************************)
(* RaceSpec: one ProcessCluster call while the scheduler binds pods and    *)
(* users annotate them.  getNodePods lists the pods of a node once, in     *)
(* candidateNodes; nothing in ProcessCluster lists them again.             *)
(***************************************************************************)
RaceFleets ==
    { StandardFleet,
      [StandardFleet EXCEPT ![<<"n", 1>>].pods = <<>>],
      [StandardFleet EXCEPT ![<<"n", 1>>].pods = <<>>, ![<<"n", 2>>].pods = <<>>] }

RaceInit ==
    /\ plan = NoPlan
    /\ LoopOff
    /\ nodes \in RaceFleets
    /\ pc = "idle"
    /\ ticks = 0
    /\ cands = <<>>
    /\ idx = 0
    /\ action = NoAction
    /\ attempts = 0
    /\ launched = NoName
    /\ result = "None"
    /\ log = <<>>
    /\ examined = <<>>
    /\ seen = nodes

\* the scheduler binds a pod to a schedulable node while the tick runs
PodBound ==
    /\ pc # "idle"
    /\ \E n \in ExistingNames :
         /\ nodes[n].exists
         /\ ~nodes[n].unschedulable
         /\ ~nodes[n].deleting
         /\ Len(nodes[n].pods) < MaxPods
         /\ nodes' = [nodes EXCEPT ![n].pods = Append(@, PlainPod)]
    /\ UNCHANGED <<pc, ticks, cands, idx, action, attempts, launched, result, log, examined, seen, plan>>
    /\ UNCHANGED loopVars

\* a pod of a node gets the do-not-evict annotation while the tick runs
PodAnnotated ==
    /\ pc # "idle"
    /\ \E n \in ExistingNames :
         /\ nodes[n].exists
         /\ \E i \in DOMAIN nodes[n].pods :
              /\ ~nodes[n].pods[i].doNotEvict
              /\ nodes' = [nodes EXCEPT ![n].pods[i].doNotEvict = TRUE]
    /\ UNCHANGED <<pc, ticks, cands, idx, action, attempts, launched, result, log, examined, seen, plan>>
    /\ UNCHANGED loopVars

RaceNext ==
    \/ ProcessClusterBegin
    \/ ProcessClusterSort
    \/ ProcessClusterExamine
    \/ LaunchReplacementCordon
    \/ LaunchReplacementLaunch
    \/ LaunchReplacementPoll
    \/ LaunchReplacementUncordon
    \/ PerformDelete
    \/ NodeInitialized
    \/ OldNodeDeleted
    \/ NodeFinalized
    \/ PodBound
    \/ PodAnnotated

RaceSpec == RaceInit /\ [][RaceNext]_vars

(***************************************************************************)
(* FairSpec: one ProcessCluster call whose steps are taken: the goroutine  *)
(* of the controller is scheduled and its API calls return.  Nothing is    *)
(* assumed of the node controller and of the termination finalizer.        *)
(***************************************************************************)
ProcessClusterStep ==
    \/ ProcessClusterBegin
    \/ ProcessClusterSort
    \/ ProcessClusterExamine
    \/ LaunchReplacementCordon
    \/ LaunchReplacementLaunch
    \/ LaunchReplacementPoll
    \/ LaunchReplacementUncordon
    \/ PerformDelete

FairNext ==
    \/ ProcessClusterStep
    \/ NodeInitialized
    \/ OldNodeDeleted
    \/ NodeFinalized

FairSpec == RaceInit /\ [][FairNext]_vars /\ WF_vars(ProcessClusterStep)

(***************************************************************************)
(* CopySpec: the simulation of one candidate, step by step, while the      *)
(* cluster state changes under it.  nodeConsolidationOptionReplaceOrDelete *)
(* collects a DeepCopy of every node of the cluster state and gives the    *)
(* copies to the scheduler, which places the pods of the candidate on      *)
(* them.  A simulated node is [shared, name, val]: a copy carries its own  *)
(* value, a shared node stands for the node of the cluster state.          *)
(***************************************************************************)
\* a collection that hands the scheduler the nodes of the cluster state
\* themselves
ShareNode(name, nd) == [shared |-> TRUE, name |-> name, val |-> nd]

\* n.DeepCopy()
DeepCopy(name, nd) == [shared |-> FALSE, name |-> name, val |-> nd]

\* the node the scheduler sees behind a simulated node
Deref(sn, fleet) == IF sn.shared THEN fleet[sn.name] ELSE sn.val

\* the fleets of CopySpec: both nodes are candidates with pods, and either
\* order of them is sorted
CopyFleets == {StandardFleet, CheapFleet}

NoCopy == [phase |-> "collect", stateNodes |-> <<>>, atCopy |-> <<>>, input |-> <<>>,
           placedOn |-> NoName]

CopyInit ==
    /\ LoopOff
    /\ nodes \in CopyFleets
    /\ pc = "examine"
    /\ ticks = 1
    /\ cands = <<CandidateOf(<<"n", 1>>, nodes[<<"n", 1>>]),
                 CandidateOf(<<"n", 2>>, nodes[<<"n", 2>>])>>
    /\ idx = 1
    /\ action = NoAction
    /\ attempts = 0
    /\ launched = NoName
    /\ result = "None"
    /\ log = <<>>
    /\ examined = <<>>
    /\ seen = nodes
    /\ plan = NoCopy

\* ForEachNode with the DeepCopy of each node
CollectStateNodes ==
    /\ plan.phase = "collect"
    /\ plan' = [plan EXCEPT !.phase = "solve",
                            !.stateNodes = [n \in {m \in AllNames : nodes[m].exists} |->
                                               DeepCopy(n, nodes[n])],
                            !.atCopy = nodes]
    /\ UNCHANGED <<nodes, pc, ticks, cands, idx, action, attempts, launched, result, log,
                   examined, seen>>
    /\ UNCHANGED loopVars

\* NewScheduler and Solve in simulation mode: the scheduler reads the nodes
\* it was given, leaves the candidate out, and binds the pods of the
\* candidate to one of the others that has room, in its own bookkeeping of
\* that node
SimulateScheduling ==
    /\ plan.phase = "solve"
    /\ LET given == plan.stateNodes
           read == [n \in DOMAIN given |-> Deref(given[n], nodes)]
           targets == {n \in DOMAIN given :
                          /\ n # cands[idx].name
                          /\ Len(read[n].pods) + Len(cands[idx].pods) <= MaxPods}
           Bind(nd) == [nd EXCEPT !.pods = @ \o cands[idx].pods]
       IN  \/ /\ targets = {}
              /\ plan' = [plan EXCEPT !.phase = "done", !.input = read]
              /\ UNCHANGED nodes
           \/ \E t \in targets :
                /\ plan' = [plan EXCEPT !.phase = "done", !.input = read, !.placedOn = t,
                                        !.stateNodes[t].val = Bind(read[t])]
                /\ nodes' = IF given[t].shared
                            THEN [nodes EXCEPT ![t] = Bind(nodes[t])]
                            ELSE nodes
    /\ UNCHANGED <<pc, ticks, cands, idx, action, attempts, launched, result, log,
                   examined, seen>>
    /\ UNCHANGED loopVars

CopyNext ==
    \/ CollectStateNodes
    \/ SimulateScheduling
    \/ PodBound
    \/ PodAnnotated

CopySpec == CopyInit /\ [][CopyNext]_vars

(***************************************************************************)
(* RetrySpec: the running loop on the standard fleet for MaxTicks calls of *)
(* ProcessCluster, each of which may plan a Replace: what a tick does      *)
(* after the Replace of an earlier tick.                                   *)
(***************************************************************************)
RetryInit ==
    /\ plan = NoPlan
    /\ nodes = StandardFleet
    /\ pc = "idle"
    /\ ticks = 0
    /\ cands = <<>>
    /\ idx = 0
    /\ action = NoAction
    /\ attempts = 0
    /\ launched = NoName
    /\ result = "None"
    /\ log = <<>>
    /\ examined = <<>>
    /\ seen = nodes
    /\ loop = "select"
    /\ started = TRUE
    /\ cancelled = FALSE
    /\ lastConsolidationState = 0
    /\ clusterState = 1
    /\ now = 0
    /\ lastNodeDeletionTime = LongAgo
    /\ health = Healthy
    /\ history = <<>>
    /\ stateRead = 0

RetryNext ==
    \/ RunSkipUnchanged
    \/ RunSkipWindow
    \/ RunProcessCluster
    \/ RunAfterProcessCluster
    \/ ProcessClusterSort
    \/ ProcessClusterExamine
    \/ LaunchReplacementCordon
    \/ LaunchReplacementLaunch
    \/ LaunchReplacementPoll
    \/ LaunchReplacementUncordon
    \/ PerformDelete
    \/ NodeInitialized
    \/ OldNodeDeleted
    \/ NodeFinalized

RetrySpec == RetryInit /\ [][RetryNext]_vars

(***************************************************************************)
(* PlanSpec: the action planner as a function.  Init draws a candidate     *)
(* that reaches the planner in some fleet of Init (it has pods and passes  *)
(* the eviction gate) and an outcome of the simulation; PlanApply applies  *)
(* nodeConsolidationActions to them.                                       *)
(***************************************************************************)
PlanCandidates ==
    {c \in UNION {Range(candidateNodes(order, f, {})) :
                     f \in InitialFleets, order \in Orders(ExistingNames)} :
        Len(c.pods) > 0 /\ canBeTerminated(c) = "ok"}

PlanInit ==
    /\ LoopOff
    /\ nodes = StandardFleet
    /\ pc = "idle"
    /\ ticks = 0
    /\ cands = <<>>
    /\ idx = 0
    /\ action = NoAction
    /\ attempts = 0
    /\ launched = NoName
    /\ result = "None"
    /\ log = <<>>
    /\ examined = <<>>
    /\ seen = nodes
    /\ \E c \in PlanCandidates : \E s \in Solve(c) :
         plan = [phase |-> "input", node |-> c, sim |-> s, verdict |-> NoAction]

PlanApply ==
    /\ plan.phase = "input"
    /\ plan' = [plan EXCEPT !.phase = "output",
                            !.verdict = nodeConsolidationActions(plan.node, plan.sim)]
    /\ UNCHANGED <<nodes, pc, ticks, cands, idx, action, attempts, launched, result, log,
                   examined, seen>>
    /\ UNCHANGED loopVars

PlanSpec == PlanInit /\ [][PlanApply]_vars

(***************************************************************************)
(* GetPodEvictionCost on its own: two pods that differ in the deletion     *)
(* cost and the priority, and their costs.                                 *)
(***************************************************************************)
\* deletion costs and priorities range over -MaxShift .. MaxShift
MaxShift == 2

CostPods ==
    {[PlainPod EXCEPT !.deletionCost = d, !.priority = q] :
        d \in (0 - MaxShift)..MaxShift, q \in (0 - MaxShift)..MaxShift}

CostInit ==
    /\ LoopOff
    /\ nodes = StandardFleet
    /\ pc = "idle"
    /\ ticks = 0
    /\ cands = <<>>
    /\ idx = 0
    /\ action = NoAction
    /\ attempts = 0
    /\ launched = NoName
    /\ result = "None"
    /\ log = <<>>
    /\ examined = <<>>
    /\ seen = nodes
    /\ \E a \in CostPods, b \in CostPods :
         plan = [phase |-> "pods", a |-> a, b |-> b, costA |-> 0, costB |-> 0]

CostApply ==
    /\ plan.phase = "pods"
    /\ plan' = [plan EXCEPT !.phase = "costs",
                            !.costA = GetPodEvictionCost(plan.a),
                            !.costB = GetPodEvictionCost(plan.b)]
    /\ UNCHANGED <<nodes, pc, ticks, cands, idx, action, attempts, launched, result, log,
                   examined, seen>>
    /\ UNCHANGED loopVars

CostSpec == CostInit /\ [][CostApply]_vars

(***************************************************************************)
(* The stabilization check on its own: the pending pods and workloads of a *)
(* cluster, the lists that fail, and the time since the last node deletion;*)
(* then the window run computes and whether it calls ProcessCluster.       *)
(***************************************************************************)
\* largest replica count of a workload
MaxReplicas == 1

WorkloadKinds == {"rs", "rc", "ss"}

\* a ReplicaSet, ReplicationController or StatefulSet: spec.replicas (nil or a
\* count) and status.readyReplicas
WorkloadVariants ==
    {[replicasSet |-> FALSE, replicas |-> 0, ready |-> k] : k \in 0..1}
    \cup UNION {{[replicasSet |-> TRUE, replicas |-> d, ready |-> k] : k \in 0..d} :
                  d \in 0..MaxReplicas}

\* desired: spec.replicas, and 1 when it is unspecified
desiredReplicas(w) == IF w.replicasSet THEN w.replicas ELSE 1

\* what the four checks find when their lists succeed
HealthOf(pending, workloads) ==
    [pending |-> pending,
     unready |-> {k \in WorkloadKinds :
                    \E w \in workloads[k] : w.ready < desiredReplicas(w)}]

\* minutes between the last node deletion and the timer case
ElapsedTimes ==
    {0, 1, StabilizationWindow - 1, StabilizationWindow, StabilizationWindow + 1}

GateInit ==
    /\ LoopOff
    /\ nodes = StandardFleet
    /\ pc = "idle"
    /\ ticks = 0
    /\ cands = <<>>
    /\ idx = 0
    /\ action = NoAction
    /\ attempts = 0
    /\ launched = NoName
    /\ result = "None"
    /\ log = <<>>
    /\ examined = <<>>
    /\ seen = nodes
    /\ \E pending \in BOOLEAN, errs \in SUBSET ListKinds, e \in ElapsedTimes,
          workloads \in [WorkloadKinds -> {{}} \cup {{w} : w \in WorkloadVariants}] :
         plan = [phase |-> "cluster", pending |-> pending, workloads |-> workloads,
                 errs |-> errs, elapsed |-> e, window |-> 0, run |-> FALSE]

GateApply ==
    /\ plan.phase = "cluster"
    /\ LET window == stabilizationWindow(HealthOf(plan.pending, plan.workloads), plan.errs)
       IN  plan' = [plan EXCEPT !.phase = "gate",
                                !.window = window,
                                !.run = Stabilized(0 - plan.elapsed, 0, window)]
    /\ UNCHANGED <<nodes, pc, ticks, cands, idx, action, attempts, launched, result, log,
                   examined, seen>>
    /\ UNCHANGED loopVars

GateSpec == GateInit /\ [][GateApply]_vars

(***************************************************************************)
(* Properties.                                                             *)
(***************************************************************************)
\* positions in the log of the calls of one kind
Ops(op) == {i \in DOMAIN log : log[i].op = op}

Replacing == action.result = "Replace"

\* C1: in a Replace action the delete of the old node is issued only after a
\* readiness poll saw the launched replacement carry the initialized label
\* (and the replacement carries it when the delete is issued); after a failed
\* launch or a readiness wait that gave up, no delete is issued in the tick.
C1_DeleteOnlyAfterReady ==
    Replacing =>
        /\ \A i \in Ops("delete") :
             /\ log[i].node = OldNode
             /\ launched # NoName
             /\ \E j \in Ops("poll") : j < i /\ log[j] = Event("poll", launched, "ready")
             /\ nodes[launched].exists
             /\ nodes[launched].initialized # "absent"
        /\ (\E i \in Ops("launch") : log[i].obs # "ok") => Ops("delete") = {}
        /\ (pc = "uncordon" \/ Ops("uncordon") # {}) => Ops("delete") = {}

\* a Replace that waited through a failed poll and then deleted the old node
C1_Witness ==
    /\ Replacing
    /\ \E i \in Ops("delete") : log[i].obs = "ok"
    /\ \E i \in Ops("poll") : log[i].obs = "notReady"

\* C2: in a Replace action the calls come in the order cordon, launch,
\* readiness polls, delete: the old node is cordoned (and stays so) before
\* the launch, the launch precedes every poll, every poll precedes the delete.
C2_ReplaceOrder ==
    Replacing =>
        /\ \A i \in Ops("launch") : \E j \in 1..(i - 1) : log[j] = Event("cordon", OldNode, "ok")
        /\ \A i \in Ops("poll") : \E j \in 1..(i - 1) : log[j] = Event("launch", log[i].node, "ok")
        /\ \A i \in Ops("delete") :
             /\ \E j \in Ops("poll") : j < i
             /\ \A j \in Ops("cordon") \cup Ops("launch") \cup Ops("poll") : j < i
        /\ \A i \in Ops("cordon"), j \in Ops("launch") \cup Ops("poll") : i < j
        /\ \A i \in Ops("launch"), j \in Ops("poll") : i < j
        /\ (pc \in {"launch", "poll"} /\ nodes[OldNode].exists) => nodes[OldNode].unschedulable

\* a finished Replace that made all four kinds of call
C2_Witness ==
    /\ Replacing
    /\ pc = "idle"
    /\ Ops("cordon") # {} /\ Ops("launch") # {} /\ Ops("poll") # {} /\ Ops("delete") # {}

\* a node the candidate selector reads the initialized label of
Eligible(nd) ==
    /\ nd.exists
    /\ nd.prov \in DOMAIN Provisioners
    /\ Provisioners[nd.prov].consolidation = "true"
    /\ nd.itype \in InstanceTypes

Mutations == Ops("cordon") \cup Ops("launch") \cup Ops("delete") \cup Ops("uncordon")

ListingFailed == Ops("listProvisioners") # {}

\* C3 as stated: if any node of the fleet is not initialized = true, then
\* (the listings succeeding) ProcessCluster returns NothingToDo and issues no
\* cordon, launch or delete.
C3_AnyUninitializedAborts ==
    (/\ ticks > 0
     /\ ~ListingFailed
     /\ \E n \in AllNames : seen[n].exists /\ seen[n].initialized # "true")
    => /\ pc = "idle"
       /\ result = "NothingToDo"
       /\ Mutations = {}

\* C3 amended: if a node with a known provisioner that has consolidation
\* enabled and with an instance type of the catalog is not initialized = true,
\* ProcessCluster returns NothingToDo (Failed when listing the provisioners
\* fails) and changes nothing: no candidate, no action, no call on a node.
C3_EligibleUninitializedAborts ==
    (/\ ticks > 0
     /\ \E n \in AllNames : Eligible(seen[n]) /\ seen[n].initialized # "true")
    => /\ pc = "idle"
       /\ result = IF ListingFailed THEN "Failed" ELSE "NothingToDo"
       /\ cands = <<>>
       /\ action = NoAction
       /\ Mutations = {}
       /\ \A n \in AllNames : nodes[n].exists =>
            /\ nodes[n].deleting = seen[n].deleting
            /\ nodes[n].unschedulable = seen[n].unschedulable

\* a call that saw an uninitialized node next to an empty initialized one
C3_Witness ==
    /\ ticks > 0
    /\ result = "NothingToDo"
    /\ \E n, m \in AllNames :
         /\ Eligible(seen[n]) /\ seen[n].initialized # "true"
         /\ Eligible(seen[m]) /\ seen[m].initialized = "true" /\ seen[m].pods = <<>>

\* the candidate of the current tick with the given node name
CandNamed(n) == CHOOSE c \in Range(cands) : c.name = n

Acting == action.result \in {"Delete", "Replace"}

Blocking(p) == HasDoNotEvict(p) \/ IsNotOwned(p)

\* C4 as stated: a candidate with any pod that carries do-not-evict or has no
\* controller owner is never selected for Delete or Replace.
C4_NoBlockingPodOnActedNode ==
    Acting => \A i \in DOMAIN CandNamed(OldNode).pods : ~Blocking(CandNamed(OldNode).pods[i])

\* C4 amended: a candidate with a pod that is not terminating and carries
\* do-not-evict or has no controller owner is never selected for Delete or
\* Replace: the gate rejects it, no simulation is run for it, and the loop goes
\* on, so that the tick ends NothingToDo only after every candidate was
\* examined and none of them yielded Delete or Replace.
C4_NoLiveBlockingPodOnActedNode ==
    LET Blocked(c) == \E i \in DOMAIN c.pods : Blocking(c.pods[i]) /\ ~IsTerminating(c.pods[i])
    IN  /\ Acting => ~Blocked(CandNamed(OldNode))
        /\ \A i \in DOMAIN examined :
             Blocked(CandNamed(examined[i].name)) =>
                /\ examined[i].gate # "ok"
                /\ examined[i].verdict = NoAction
                /\ \A j \in Ops("simulate") : log[j].node # examined[i].name
        /\ (pc = "idle" /\ result = "NothingToDo" /\ cands # <<>>) =>
             /\ Len(examined) = Len(cands)
             /\ \A i \in DOMAIN examined :
                  examined[i].name = cands[i].name
                  /\ examined[i].verdict.result \notin {"Delete", "Replace"}

\* a node with a do-not-evict pod was passed over and the other node deleted
C4_Witness ==
    /\ action.result = "Delete"
    /\ \E i \in Ops("delete") : log[i].obs = "ok"
    /\ \E i \in DOMAIN examined :
         /\ examined[i].gate = "found do-not-evict pod"
         /\ examined[i].name # OldNode

\* C5: a candidate with a pod the PDB tracker reports as not evictable is never
\* an old node of an action, the gate rejects it, and no call (simulation,
\* cordon, delete) is made for it.
C5_PDBBlocksCandidate ==
    \A k \in DOMAIN cands :
        ~CanEvictPods(cands[k].pods) =>
            /\ cands[k].name \notin Range(action.oldNodes)
            /\ \A i \in DOMAIN log : log[i].node # cands[k].name
            /\ \A i \in DOMAIN examined :
                 examined[i].name = cands[k].name =>
                    examined[i].gate # "ok" /\ examined[i].verdict = NoAction

\* a candidate was rejected for its PDB and the other node was acted on
C5_Witness ==
    /\ Acting
    /\ pc = "idle"
    /\ \E i \in DOMAIN examined :
         /\ examined[i].gate = "not eligible for termination due to PDBs"
         /\ examined[i].name # OldNode

\* the least price among a non-empty set of instance types
MinPrice(S) == CHOOSE x \in {Price(it) : it \in S} : \A it \in S : x <= Price(it)

Planned == plan.phase = "output"

C7_NoSpotToSpot ==
    (Planned /\ plan.node.spot) =>
        /\ plan.sim.spot => plan.verdict.result # "Replace"
        /\ (plan.sim.err = "none" /\ plan.sim.newNodes = 1 /\ plan.sim.spot) =>
             plan.verdict.result = "NotPossible"
        /\ plan.verdict.result = "Replace" => ~plan.verdict.spot

\* a spot node with a cheaper spot replacement on offer, refused
C7_Witness ==
    /\ Planned
    /\ plan.node.spot /\ plan.sim.spot /\ plan.sim.newNodes = 1
    /\ \E i \in DOMAIN plan.sim.options : Price(plan.sim.options[i]) < Price(plan.node.itype)
    /\ plan.verdict.result = "NotPossible"

NoEmptyCandidate == cands # <<>> /\ \A k \in DOMAIN cands : Len(cands[k].pods) > 0

\* C8: with no empty candidate, a ProcessCluster call acts on at most one node:
\* at most one cordon, one launch and one delete, all for the one old node of
\* the action, which is the last candidate examined.
C8_AtMostOneAction ==
    NoEmptyCandidate =>
        /\ Len(action.oldNodes) <= 1
        /\ Cardinality(Ops("cordon")) <= 1
        /\ Cardinality(Ops("launch")) <= 1
        /\ Cardinality(Ops("delete")) <= 1
        /\ \A i \in Ops("cordon") \cup Ops("delete") \cup Ops("uncordon") :
             Acting /\ log[i].node = OldNode
        /\ Acting =>
             /\ examined[Len(examined)].name = OldNode
             /\ examined[Len(examined)].verdict = action
             /\ \A i \in 1..(Len(examined) - 1) :
                  examined[i].verdict.result \notin {"Delete", "Replace"}
             /\ pc = "idle" => result = "Consolidated"

\* the first of two candidates was deleted and the second never examined
C8_Witness ==
    /\ NoEmptyCandidate
    /\ pc = "idle"
    /\ action.result = "Delete"
    /\ Len(cands) = 2
    /\ Len(examined) = 1
    /\ \E i \in Ops("delete") : log[i].obs = "ok"

\* c comes strictly before d: lower disruption cost, or equal cost and older
Before(c, d) ==
    \/ c.disruptionCost < d.disruptionCost
    \/ c.disruptionCost = d.disruptionCost /\ c.created < d.created

\* C9: the node acted on by Delete or Replace is the least, by disruption cost
\* and then age, of the candidates that pass the gate and yield Delete or
\* Replace: every candidate strictly before it was examined and rejected.
C9_LeastFeasibleFirst ==
    Acting =>
        /\ \A k \in DOMAIN cands :
             cands[k].disruptionCost = disruptionCost(getNodePods(seen[cands[k].name]))
             /\ cands[k].created = seen[cands[k].name].created
        /\ \A k \in DOMAIN cands :
             Before(cands[k], CandNamed(OldNode)) =>
                \E i \in DOMAIN examined :
                    /\ examined[i].name = cands[k].name
                    /\ \/ examined[i].gate # "ok"
                       \/ examined[i].verdict.result \notin {"Delete", "Replace"}

\* of two candidates of equal cost the older was acted on, the newer not examined
C9_Witness ==
    /\ Acting
    /\ Len(cands) = 2
    /\ Len(examined) = 1
    /\ \E k \in DOMAIN cands :
         /\ cands[k].disruptionCost = CandNamed(OldNode).disruptionCost
         /\ cands[k].created > CandNamed(OldNode).created

EmptyCandidates == {cands[k].name : k \in {j \in DOMAIN cands : Len(cands[j].pods) = 0}}

\* C10: when some candidate has no reschedulable pod, the tick performs one
\* DeleteEmpty action over exactly the empty candidates: it issues one delete
\* for each of them, no cordon and no launch, examines and simulates no
\* candidate, and returns Consolidated.
C10_EmptyBatch ==
    EmptyCandidates # {} =>
        /\ action.result = "DeleteEmpty"
        /\ Range(action.oldNodes) = EmptyCandidates
        /\ Len(action.oldNodes) = Cardinality(EmptyCandidates)
        /\ examined = <<>>
        /\ DOMAIN log = Ops("delete")
        /\ \A i \in DOMAIN log : log[i].node = action.oldNodes[i]
        /\ pc \in {"delete", "idle"}
        /\ pc = "idle" => result = "Consolidated" /\ Len(log) = Len(action.oldNodes)

\* an empty node was deleted while a candidate with pods was left alone
C10_Witness ==
    /\ pc = "idle"
    /\ Cardinality(EmptyCandidates) = 1
    /\ Len(cands) = 2
    /\ \E i \in Ops("delete") : log[i].obs = "ok"

\* C11: a node with the do-not-consolidate annotation is never a candidate,
\* never an old node of an action, and no cordon, uncordon or delete names it,
\* whether it has pods or not; while it exists it is among the nodes every
\* simulation of the tick is given and is not the node left out.
C11_DoNotConsolidateKept ==
    \A n \in AllNames :
        (ticks > 0 /\ seen[n].exists /\ seen[n].doNotConsolidate) =>
            /\ \A k \in DOMAIN cands : cands[k].name # n
            /\ n \notin Range(action.oldNodes)
            /\ \A i \in DOMAIN log : log[i].node # n
            /\ nodes[n].exists =>
                 /\ nodes[n].unschedulable = seen[n].unschedulable
                 /\ nodes[n].deleting = seen[n].deleting
                 /\ \A i \in DOMAIN examined :
                      examined[i].gate = "ok" =>
                         n \in examined[i].input.stateNodes \ examined[i].input.exclude

\* the other node was deleted after a simulation given the annotated node,
\* here an annotated node without pods
C11_Witness ==
    /\ action.result = "Delete"
    /\ pc = "idle"
    /\ \E i \in Ops("delete") : log[i].obs = "ok"
    /\ \E n \in AllNames :
         /\ seen[n].exists /\ seen[n].doNotConsolidate /\ Eligible(seen[n])
         /\ seen[n].pods = <<>>
         /\ n \in examined[Len(examined)].input.stateNodes

\* the readiness wait of the Replace gave up
WaitGaveUp == Replacing /\ (pc = "uncordon" \/ Ops("uncordon") # {})

\* C12: when the readiness wait of a Replace gives up (no attempt saw the
\* replacement initialized), the old node is not deleted, the launched node is
\* left in place, and launchReplacementNode makes one uncordon call on the old
\* node and returns an error, the last things the tick does; after an uncordon
\* call that succeeded the old node is schedulable again unless it was already
\* being deleted, in which case it is left cordoned.
C12_TimeoutUncordons ==
    /\ WaitGaveUp =>
         /\ launched # NoName
         /\ Ops("poll") # {}
         /\ \A i \in Ops("poll") : log[i].obs # "ready"
         /\ Ops("delete") = {}
         /\ nodes[launched].exists
         /\ ~nodes[launched].deleting
         /\ Cardinality(Ops("uncordon")) <= 1
         /\ \A i \in Ops("uncordon") :
              /\ pc = "idle"
              /\ log[i].node = OldNode
              /\ i = Len(log) - 1
              /\ log[Len(log)] = Event("error", OldNode, "timed out checking node readiness")
              /\ (log[i].obs = "ok" /\ nodes[OldNode].exists) =>
                    nodes[OldNode].unschedulable = nodes[OldNode].deleting
    /\ (/\ Replacing
        /\ pc = "idle"
        /\ \E i \in Ops("launch") : log[i].obs = "ok"
        /\ \A i \in Ops("poll") : log[i].obs # "ready")
       => Ops("uncordon") # {}

\* a wait that gave up, after which the old node is schedulable again and the
\* replacement is still there
C12_Witness ==
    /\ WaitGaveUp
    /\ pc = "idle"
    /\ \E i \in Ops("uncordon") : log[i].obs = "ok"
    /\ nodes[OldNode].exists
    /\ ~nodes[OldNode].unschedulable
    /\ ~nodes[OldNode].deleting
    /\ nodes[launched].exists

\* the calls that emit the termination event for a node, and the value the
\* tick has added to the nodes-terminated counter
TerminationEvents == Ops("delete")

NodesTerminated == Cardinality({i \in Ops("delete") : log[i].obs = "ok"})

LaunchFailed == Replacing /\ \E i \in Ops("launch") : log[i].obs # "ok"

\* C13: when LaunchNodes fails or returns other than one node name, the
\* Replace ends there: the failed launch and its error are the last things the
\* tick does, no readiness poll is made, the old node is not deleted, no
\* termination event is emitted and the nodes-terminated counter is unchanged.
C13_LaunchFailureAborts ==
    LaunchFailed =>
        /\ pc = "idle"
        /\ launched = NoName
        /\ Cardinality(Ops("launch")) = 1
        /\ \A i \in Ops("launch") :
             /\ i = Len(log) - 1
             /\ log[Len(log)] = Event("error", OldNode, "launching")
        /\ Ops("poll") = {}
        /\ TerminationEvents = {}
        /\ NodesTerminated = 0
        /\ nodes[OldNode].exists => nodes[OldNode].deleting = seen[OldNode].deleting

\* both kinds of failed launch of a Replace whose old node is still there
C13_Witness ==
    /\ LaunchFailed
    /\ \E i \in Ops("launch") : log[i].obs = "count"
    /\ nodes[OldNode].exists
    /\ ~nodes[OldNode].deleting

Unhealthy(h) == h.pending \/ h.unready # {}

\* the controller's delete call marks a node for deletion in this step
NodeDeletionIssued ==
    /\ pc = "delete"
    /\ \E n \in AllNames : nodes'[n].deleting /\ ~nodes[n].deleting

\* no node has gone since run checked the window, so LastNodeDeletionTime is
\* still the one run compared
NoDeletionSinceGate == \A n \in AllNames : seen[n].exists => nodes[n].exists

\* C15 as stated, for the ticks in which no other deletion completes: in a
\* cluster that is not fully healthy, the loop deletes a node only if more
\* than the stabilization window has passed since the last node deletion.
C15_WindowWhenUnhealthy ==
    [][(NodeDeletionIssued /\ Unhealthy(health) /\ NoDeletionSinceGate)
          => lastNodeDeletionTime < now - StabilizationWindow]_vars

C17_LoopOnlyEndsOnCancel ==
    /\ [](loop = "done" => cancelled)
    /\ [](loop \in {"select", "tick"} => started)
    /\ [](ticks > 0 => started)
    /\ [][(loop' = "done" /\ loop # "done") => (cancelled /\ loop \in {"init", "select"})]_vars
    /\ [][(loop = "tick" /\ loop' # "tick") => loop' = "select"]_vars

\* a call made after a call that failed
C17_Witness ==
    /\ ticks = 2
    /\ history = <<"Failed">>
    /\ loop = "tick"

\* C18 as stated: once the context is cancelled, the readiness wait makes no
\* further attempt and the Replace does not go on to delete the old node.
C18_WaitStopsOnCancel ==
    [][(cancelled /\ pc = "poll") => (attempts' = attempts /\ pc' # "delete")]_vars

\* the price of the nodes of a fleet that are not marked for deletion
RECURSIVE PriceOfNodes(_, _)
PriceOfNodes(fleet, names) ==
    IF names = {} THEN 0
    ELSE LET n == CHOOSE m \in names : TRUE
         IN  (IF fleet[n].itype \in InstanceTypes THEN Price(fleet[n].itype) ELSE 0)
             + PriceOfNodes(fleet, names \ {n})

FleetPrice(fleet) ==
    PriceOfNodes(fleet, {n \in AllNames : fleet[n].exists /\ ~fleet[n].deleting})

\* the tick performed its action and every delete call of it succeeded
ActionSucceeded ==
    /\ ticks > 0
    /\ pc = "idle"
    /\ result = "Consolidated"
    /\ action.result \in {"DeleteEmpty", "Delete", "Replace"}
    /\ Cardinality(Ops("delete")) = Len(action.oldNodes)
    /\ \A i \in Ops("delete") : log[i].obs = "ok"

\* C19 as stated, its first half: after a successful consolidation action the
\* fleet (the nodes not marked for deletion) costs strictly less than the
\* fleet the tick started with.
C19_ActionLowersPrice == ActionSucceeded => FleetPrice(nodes) < FleetPrice(seen)

\* C20: the verdict for a candidate is Delete exactly when the simulation
\* succeeded, needs no new node and placed as many pods on the existing nodes
\* as the candidate has reschedulable pods; the Delete names the candidate
\* alone and its savings are the price of the candidate's instance type.
C20_DeleteExactlyWhenAllFit ==
    Planned =>
        /\ plan.verdict.result = "Delete"
             <=> /\ plan.sim.err = "none"
                 /\ plan.sim.newNodes = 0
                 /\ plan.sim.placed = Len(plan.node.pods)
        /\ plan.verdict.result = "Delete" =>
             /\ plan.verdict.savings = Price(plan.node.itype)
             /\ plan.verdict.oldNodes = <<plan.node.name>>
             /\ plan.verdict.options = <<>>

\* a Delete of a candidate with two pods on a type that is not the cheapest
C20_Witness ==
    /\ Planned
    /\ plan.verdict.result = "Delete"
    /\ Len(plan.node.pods) = 2
    /\ plan.verdict.savings > 1

\* no new node needed, yet a pod of the candidate found no place: no Delete
C20_NotAllPlaced ==
    /\ Planned
    /\ plan.sim.err = "none"
    /\ plan.sim.newNodes = 0
    /\ plan.sim.placed < Len(plan.node.pods)
    /\ plan.verdict.result = "NotPossible"

\* the nodes the selector would have made candidates had their pods been listed
PodsNotListed ==
    IF \E n \in AllNames : Eligible(seen[n]) /\ seen[n].initialized # "true"
    THEN {}
    ELSE {n \in AllNames : /\ Eligible(seen[n])
                           /\ ~seen[n].doNotConsolidate
                           /\ ~seen[n].nominated
                           /\ \A k \in DOMAIN cands : cands[k].name # n}

\* a call that observes the cluster failed in the tick
ObservationFailed ==
    /\ ticks > 0
    /\ \/ ListingFailed
       \/ Ops("listPDBs") # {}
       \/ (~ListingFailed /\ PodsNotListed # {})

\* C21 as stated: when listing the provisioners or instance types, the
\* PodDisruptionBudgets or the pods of a node fails in a tick, the tick issues
\* no cordon, launch or delete.
C21_ObservationFailureAborts == ObservationFailed => Mutations = {}

\* the same for the listings other than the pods of a node: the tick returns
\* Failed and has issued no cordon, launch or delete
C21_ListFailureAborts ==
    (ticks > 0 /\ (ListingFailed \/ Ops("listPDBs") # {}))
    => /\ pc = "idle"
       /\ result = "Failed"
       /\ Mutations = {}

Costed == plan.phase = "costs"

ReplaceAborted ==
    /\ Replacing
    /\ ticks > 0
    /\ pc = "idle"
    /\ Ops("delete") = {}
    /\ \A i \in Ops("cordon") \cup Ops("uncordon") : log[i].obs = "ok"
    /\ ~seen[OldNode].unschedulable
    /\ nodes[OldNode].exists
    /\ ~nodes[OldNode].deleting

\* C23 as stated: a Replace that ends without deleting the old node (failed
\* launch, wrong number of launched names, readiness timeout), its API calls
\* succeeding, does not leave the old node unschedulable.
C23_NoCordonLeftBehind == ReplaceAborted => ~nodes[OldNode].unschedulable

\* C24 as stated: when the cluster state changed while ProcessCluster ran and
\* the call returned NothingToDo, the change is not memoized with it: the
\* change-detection gate of the next timer case lets ProcessCluster run.
C24_ChangeDuringTickNotLost ==
    [][(/\ loop = "tick" /\ loop' = "select"
        /\ result = "NothingToDo"
        /\ clusterState # stateRead)
          => lastConsolidationState' # clusterState']_vars

\* C25 as stated, for the nodes that had their deletion timestamp when the
\* tick began: the controller issues no delete for such a node.
C25_NoDeleteOfDeletingNode ==
    [][(pc = "delete" /\ log' # log) => ~seen[action.oldNodes[idx]].deleting]_vars

\* the same for the Delete and Replace actions alone: their old node passed
\* canBeTerminated, which rejects a node with a deletion timestamp
C25_GateRejectsDeletingNode == Acting => ~seen[OldNode].deleting

Gated == plan.phase = "gate"

\* no provisionable pending pod, and every workload has its desired replicas
\* ready, an unset replica count counting as 1
FullyHealthy ==
    /\ ~plan.pending
    /\ \A k \in WorkloadKinds : \A w \in plan.workloads[k] :
         w.ready >= (IF w.replicasSet THEN w.replicas ELSE 1)

\* C26 as stated, the "only if" of it: the stabilization window is 0 or 5
\* minutes, and it is 0 only if no provisionable pending pod exists and every
\* ReplicaSet, ReplicationController and StatefulSet has its desired replicas
\* ready.
C26_WindowZeroOnlyIfHealthy ==
    Gated => /\ plan.window \in {0, StabilizationWindow}
             /\ plan.window = 0 => FullyHealthy

\* with every list succeeding the window is 0 exactly for the healthy cluster
C26_WindowWhenListsSucceed ==
    (Gated /\ plan.errs = {}) => (plan.window = 0 <=> FullyHealthy)

\* C27 as stated: when one of the four lists fails, the stabilization window
\* is 5 minutes.
C27_ListErrorAssumesUnhealthy ==
    (Gated /\ plan.errs # {}) => plan.window = StabilizationWindow

\* the list of the pending pods failing alone gives the 5 minutes
C27_PodListErrorAssumesPending ==
    (Gated /\ "pods" \in plan.errs) => plan.window = StabilizationWindow

\* C28 as stated: ProcessCluster is skipped exactly when the time since the
\* last node deletion is less than the stabilization window; it runs when the
\* two are equal, and always with a window of 0.
C28_SkipExactlyInsideWindow ==
    Gated => /\ plan.run <=> ~(plan.elapsed < plan.window)
             /\ plan.window = 0 => plan.run

\* ProcessCluster runs exactly when more than the window has passed
C28_RunsOnlyAfterWindow == Gated => (plan.run <=> plan.elapsed > plan.window)

\* C29: when the simulation needs more than one new node, or needs none but
\* does not place all the pods of the candidate on the existing nodes, the
\* verdict is NotPossible: it names no node to delete, no replacement and no
\* savings.
C29_NoFanOut ==
    (/\ Planned
     /\ plan.sim.err = "none"
     /\ \/ plan.sim.newNodes > 1
        \/ (plan.sim.newNodes = 0 /\ plan.sim.placed # Len(plan.node.pods)))
    => /\ plan.verdict.result = "NotPossible"
       /\ plan.verdict.oldNodes = <<>>
       /\ plan.verdict.options = <<>>
       /\ plan.verdict.savings = 0

\* two new nodes needed, the first of them of a type cheaper than the
\* candidate's
C29_Witness ==
    /\ Planned
    /\ plan.sim.newNodes = 2
    /\ \E i \in DOMAIN plan.sim.options : Price(plan.sim.options[i]) < Price(plan.node.itype)
    /\ ~plan.node.spot
    /\ plan.verdict.result = "NotPossible"

\* in a tick, a candidate whose verdict is NotPossible is not cordoned or
\* deleted, and nothing is launched for it: the loop goes on to the next
C29_NotPossibleUntouched ==
    \A i \in DOMAIN examined :
        examined[i].verdict.result = "NotPossible" =>
            /\ \A j \in Mutations : log[j].node # examined[i].name
            /\ (action.result \in {"Delete", "Replace"} => OldNode # examined[i].name)

\* the disruption cost of candidate c scaled by its lifetime remaining is less
\* than that of candidate d
LifetimeScaledLess(c, d) ==
    LET lc == calculateLifetimeRemaining(c)
        ld == calculateLifetimeRemaining(d)
    IN  c.disruptionCost * lc[1] * ld[2] < d.disruptionCost * ld[1] * lc[2]

\* C30 as stated: of two candidates of a provisioner with an expiration TTL,
\* the one whose disruption cost scaled by its lifetime remaining is lower
\* comes first in the order in which the tick examines its candidates.
C30_OrderByLifetimeScaledCost ==
    (ticks > 0 /\ pc = "examine") =>
        \A i, j \in DOMAIN cands :
            (/\ Provisioners[cands[i].prov].ttl # 0
             /\ Provisioners[cands[j].prov].ttl # 0
             /\ LifetimeScaledLess(cands[i], cands[j])) => i < j

\* the simulation for the candidate of this name returned an error
SimulationFailedFor(n) == \E j \in Ops("simulate") : log[j].node = n /\ log[j].obs # "none"

\* C31: a candidate whose simulation fails gets the verdict Unknown, no cordon,
\* launch or delete is issued for it, and the tick goes on: the next candidate
\* in order is examined, or, after the last candidate, the tick returns
\* NothingToDo.
C31_SimulationFailureSkips ==
    \A i \in DOMAIN examined :
        SimulationFailedFor(examined[i].name) =>
            /\ examined[i].gate = "ok"
            /\ examined[i].verdict.result = "Unknown"
            /\ examined[i].verdict.oldNodes = <<>>
            /\ \A j \in Mutations : log[j].node # examined[i].name
            /\ i = Len(examined) =>
                 \/ pc = "examine" /\ idx = i + 1 /\ idx <= Len(cands)
                 \/ pc = "idle" /\ result = "NothingToDo" /\ i = Len(cands)

\* the simulation of the first candidate failed and the second was deleted
C31_Witness ==
    /\ Len(examined) = 2
    /\ SimulationFailedFor(examined[1].name)
    /\ examined[2].verdict.result = "Delete"
    /\ \E j \in Ops("delete") : log[j].node = examined[2].name /\ log[j].obs = "ok"

\* the replacements launched by consolidation that are in the fleet without
\* the initialized label being "true"
UninitializedReplacements(fleet) ==
    {r \in ReplacementNames : fleet[r].exists /\ fleet[r].initialized # "true"}

C33_WaitAcceptsOnlyInitialized ==
    \A i \in Ops("poll") :
        log[i].obs = "ready" => nodes[log[i].node].initialized = "true"

\* the Replace of this tick ended on the readiness timeout, its cordon and
\* uncordon calls went through, and the old node is there and not being
\* deleted
TimedOutReplace ==
    /\ WaitGaveUp
    /\ ticks > 0
    /\ pc = "idle"
    /\ \A i \in Ops("cordon") \cup Ops("uncordon") : log[i].obs = "ok"
    /\ nodes[OldNode].exists
    /\ ~nodes[OldNode].deleting

\* C34: a Replace that aborts on the readiness timeout leaves the
\* unschedulable flag of the old node as it was before the action; a node
\* that was cordoned before the action is still cordoned after the abort.
C34_AbortRestoresCordon ==
    TimedOutReplace => nodes[OldNode].unschedulable = seen[OldNode].unschedulable

\* the same for the old nodes that were schedulable before the action
C34_AbortUncordonsSchedulable ==
    (TimedOutReplace /\ ~seen[OldNode].unschedulable) => ~nodes[OldNode].unschedulable

\* the step is a successful delete of an old node by a Delete action
DeleteActionDeletes ==
    /\ pc = "delete"
    /\ action.result = "Delete"
    /\ log' # log
    /\ log'[Len(log')] = Event("delete", action.oldNodes[idx], "ok")

\* C35: when a Delete action deletes a node, the pods the node hosts are the
\* pods of the tick's candidate snapshot and none of them is one the gate
\* rejects: a pod bound to the node, or annotated do-not-evict, after the
\* snapshot is not on the node when it is deleted.
C35_DeletedNodeHostsSnapshotPods ==
    [][DeleteActionDeletes =>
          /\ getNodePods(nodes[action.oldNodes[idx]]) = CandNamed(action.oldNodes[idx]).pods
          /\ \A i \in DOMAIN nodes[action.oldNodes[idx]].pods :
                PodPrevents(nodes[action.oldNodes[idx]].pods[i]) = "ok"]_vars

IsDelete(e) == e.op = "delete"

\* the delete calls of the tick, in the order they were made
DeleteCalls == SelectSeq(log, IsDelete)

\* C36: in a DeleteEmpty batch a delete that fails does not end the batch:
\* one delete is attempted for every node of the action, in order and once
\* each (no retry), and the nodes-terminated counter is the number of deletes
\* that succeeded.
C36_BatchContinuesAfterFailure ==
    (action.result = "DeleteEmpty" /\ ticks > 0) =>
        /\ pc \in {"delete", "idle"}
        /\ Len(DeleteCalls) = IF pc = "idle" THEN Len(action.oldNodes) ELSE idx - 1
        /\ \A i \in DOMAIN DeleteCalls : DeleteCalls[i].node = action.oldNodes[i]
        /\ NodesTerminated = Cardinality({i \in DOMAIN DeleteCalls : DeleteCalls[i].obs = "ok"})
        /\ NodesTerminated <= Len(DeleteCalls)

\* a batch of two empty nodes whose first delete failed and whose second
\* went through
C36_Witness ==
    /\ action.result = "DeleteEmpty"
    /\ pc = "idle"
    /\ Len(action.oldNodes) = 2
    /\ Len(DeleteCalls) = 2
    /\ DeleteCalls[1].obs = "err"
    /\ DeleteCalls[2].obs = "ok"
    /\ NodesTerminated = 1

Deleting == action.result \in {"Delete", "DeleteEmpty"}

\* C37: a Delete or DeleteEmpty action makes no cordon, uncordon, launch or
\* readiness poll; the calls it makes on the cluster are deletes of the old
\* nodes of the action, no node is launched and no node changes its
\* unschedulable flag.  Cordons and launches are made by a Replace only.
C37_DeleteNeverCordonsOrLaunches ==
    /\ (Deleting /\ ticks > 0) =>
          /\ Ops("cordon") \cup Ops("uncordon") \cup Ops("launch") \cup Ops("poll") = {}
          /\ \A i \in Mutations : log[i].node \in Range(action.oldNodes)
          /\ launched = NoName
          /\ \A r \in ReplacementNames : ~nodes[r].exists
          /\ \A n \in ExistingNames :
                nodes[n].exists => nodes[n].unschedulable = seen[n].unschedulable
    /\ (Ops("cordon") \cup Ops("uncordon") \cup Ops("launch") # {}) => Replacing

\* a Delete action that has deleted its node
C37_Witness ==
    /\ action.result = "Delete"
    /\ pc = "idle"
    /\ \E i \in Ops("delete") : log[i].obs = "ok"
    /\ nodes[OldNode].exists
    /\ nodes[OldNode].deleting
    /\ ~nodes[OldNode].unschedulable

CandidateNames == {cands[i].name : i \in DOMAIN cands}

\* the node was passed over by candidateNodes: no known provisioner,
\* consolidation not enabled on it, no known instance type, or nominated
PassedOver(nd) == ~Eligible(nd) \/ nd.nominated

\* C38: a node is cordoned, uncordoned or deleted by the controller only if
\* it is a candidate of the tick; a node without a known provisioner, of a
\* provisioner without consolidation enabled, of an unknown instance type or
\* nominated for pending pods is no candidate.
C38_OnlyCandidatesTouched ==
    /\ \A i \in Ops("cordon") \cup Ops("uncordon") \cup Ops("delete") :
          /\ log[i].node \in CandidateNames
          /\ ~PassedOver(seen[log[i].node])
    /\ ticks > 0 => \A n \in AllNames : PassedOver(seen[n]) => n \notin CandidateNames

\* a tick that deleted one node and left the other, nominated, alone
C38_Witness ==
    /\ pc = "idle"
    /\ \E n \in ExistingNames :
         /\ Eligible(seen[n])
         /\ seen[n].nominated
         /\ Len(seen[n].pods) = 0
         /\ nodes[n] = seen[n]
    /\ \E i \in Ops("delete") : log[i].obs = "ok"

\* C39: the readiness wait ends: it makes at most Attempts polls, it ends
\* with success at the first poll that observes the replacement initialized
\* and with the timeout after the last poll otherwise, and the tick that
\* runs it completes.
C39_WaitTerminates ==
    /\ [](pc = "poll" => attempts < Attempts)
    /\ [][(pc = "poll" /\ pc' # "poll") =>
            \/ pc' = "delete" /\ log'[Len(log')] = Event("poll", launched, "ready")
            \/ /\ pc' = "uncordon"
               /\ attempts = Attempts - 1
               /\ log'[Len(log')].op = "poll"
               /\ log'[Len(log')].obs # "ready"]_vars
    /\ [][(pc = "poll" /\ log' # log /\ log'[Len(log')].obs = "ready") => pc' = "delete"]_vars
    /\ (pc = "poll" ~> pc = "idle")
    /\ <>(ticks = 1 /\ pc = "idle")

\* the wait has made its last poll without seeing the replacement
\* initialized and has given up
C39_Witness ==
    /\ pc = "uncordon"
    /\ launched # NoName
    /\ nodes[launched].exists
    /\ nodes[launched].initialized = "absent"
    /\ log[Len(log)] = Event("poll", launched, "notReady")

====
